---- MODULE Spec2Model ----
(***************************************************************************)
(* Model of the inventory service of src/index.js: an Express application  *)
(* that keeps a collection of items in memory (db), mirrors it into a JSON  *)
(* document (DB_FILE) and keeps uploaded photos in a directory (PHOTOS_DIR).*)
(***************************************************************************)
EXTENDS Naturals, Sequences, FiniteSets, TLC

VARIABLES
  db,         \* the in-memory value of `db` (index.js:44)
  disk,       \* the content of DB_FILE (inventory.json)
  photos,     \* the files of PHOTOS_DIR: a set of <<file name, bytes>>
  uuidCount,  \* how many values uuidv4() has produced so far
  req,        \* the request served last
  resp,       \* the response sent last
  lastUpload, \* history: per item id, the bytes uploaded for it most recently
  deleted,    \* history: <<id, storedFileName>> of every item deleted with 200
  conns       \* the requests in flight when requests overlap, per connection

vars == <<db, disk, photos, uuidCount, req, resp, lastUpload, deleted, conns>>

----------------------------------------------------------------------------
(* Bounds of the model *)

\* uuidv4() is called at most MaxUuid times in a behaviour
MaxUuid == 3

\* uuidv4() is called at most MaxRaceUuid times in a behaviour with
\* overlapping requests
MaxRaceUuid == 2

----------------------------------------------------------------------------
(* JavaScript values *)

Undefined == "<undefined>"
Null == "<null>"

\* ToBoolean on the values of the model (strings, null, undefined)
Truthy(v) == v \notin {Undefined, Null, ""}

\* a || b
OrElse(a, b) == IF Truthy(a) THEN a ELSE b

\* the values uuidv4() returns, in the order it returns them; the generator
\* is random, and the model takes its values to be pairwise distinct
UuidPool == <<"u1", "u2", "u3", "u4", "u5", "u6">>
uuidv4(n) == UuidPool[n + 1]
Uuids == {UuidPool[i] : i \in 1..Len(UuidPool)}

\* request inputs
Names == {Undefined, "", "n1", "n2"}
Descriptions == {Undefined, "", "d1"}
Flags == {Undefined, "", "on"}
NoFile == [present |-> FALSE, bytes |-> "", ext |-> ""]
Files == {NoFile, [present |-> TRUE, bytes |-> "jpegA", ext |-> ""],
          [present |-> TRUE, bytes |-> "jpegB", ext |-> ".png"]}
ReqIds == {uuidv4(i) : i \in 0..(MaxUuid - 1)} \cup {"nosuch"}

----------------------------------------------------------------------------
(* The JSON document: JSON.stringify and JSON.parse *)

ItemKeys == <<"id", "name", "description", "photo", "storedFileName">>

\* a JSON token for a field value: null or a quoted string
JsonToken(v) == IF v = Null THEN [null |-> TRUE, str |-> ""]
                ELSE [null |-> FALSE, str |-> v]
TokenValue(t) == IF t.null THEN Null ELSE t.str

RECURSIVE StringifyFields(_, _)
\* the members of an object, in key order; a member whose value is
\* undefined is left out (JSON.stringify)
StringifyFields(item, k) ==
  IF k > Len(ItemKeys) THEN <<>>
  ELSE LET key == ItemKeys[k]
           rest == StringifyFields(item, k + 1)
       IN IF item[key] = Undefined THEN rest
          ELSE <<[key |-> key, tok |-> JsonToken(item[key])]>> \o rest

StringifyItem(item) == StringifyFields(item, 1)

\* JSON.stringify(db, null, 2)
JSONstringify(d) ==
  [form |-> "json", type |-> d.type, hasItems |-> d.hasItems,
   items |-> [i \in 1..Len(d.items) |-> StringifyItem(d.items[i])]]

MemberOr(members, key) ==
  IF \E i \in 1..Len(members) : members[i].key = key
  THEN TokenValue(members[CHOOSE i \in 1..Len(members) : members[i].key = key].tok)
  ELSE Undefined

ParseItem(members) == [key \in {ItemKeys[k] : k \in 1..Len(ItemKeys)} |->
                         MemberOr(members, key)]

\* JSON.parse of a text that is valid JSON
JSONparse(text) ==
  [type |-> text.type, hasItems |-> text.hasItems,
   items |-> [i \in 1..Len(text.items) |-> ParseItem(text.items[i])]]

EmptyDb == [type |-> "object", hasItems |-> TRUE, items |-> <<>>]

\* texts inventory.json may hold when the service starts
EmptyText == [form |-> "empty", type |-> "", hasItems |-> FALSE, items |-> <<>>]
GarbageText == [form |-> "garbage", type |-> "", hasItems |-> FALSE, items |-> <<>>]
BareObjectText == [form |-> "json", type |-> "object", hasItems |-> FALSE, items |-> <<>>]

NoDbFile == [exists |-> FALSE, text |-> EmptyText]
DbFile(text) == [exists |-> TRUE, text |-> text]

\* index.js:44-55, the value of db after start-up
LoadDb(dk) ==
  IF dk.exists
  THEN IF dk.text.form = "garbage" THEN EmptyDb
       ELSE IF dk.text.form = "empty" THEN JSONparse(BareObjectText)
       ELSE JSONparse(dk.text)
  ELSE EmptyDb

\* index.js:45,52-54, DB_FILE after start-up
LoadDisk(dk) == IF dk.exists THEN dk ELSE DbFile(JSONstringify(EmptyDb))

\* a save that writes the public projection of the items
saveDb_PublicOnly(d) ==
  DbFile(JSONstringify(
    [d EXCEPT !.items = [i \in 1..Len(d.items) |->
                           [d.items[i] EXCEPT !.storedFileName = Undefined]]]))

\* index.js:57-59
saveDb(d) == DbFile(JSONstringify(d))

\* whether db.items can be used as an array
HasItems(d) == d.type = "object" /\ d.hasItems

----------------------------------------------------------------------------
(* Express routing *)

Methods == {"GET", "HEAD", "POST", "PUT", "DELETE", "PATCH", "OPTIONS"}
Paths == {"/register", "/inventory", "/inventory/:id", "/inventory/:id/photo",
          "/search", "/nosuch"}

\* the routes in the order index.js registers them, each with the argument
\* it gives to allowMethods
Routes == <<
  [method |-> "POST",   path |-> "/register",            allow |-> <<"POST">>,   handler |-> "register"],
  [method |-> "GET",    path |-> "/inventory",           allow |-> <<"GET">>,    handler |-> "list"],
  [method |-> "GET",    path |-> "/inventory/:id",       allow |-> <<"GET">>,    handler |-> "get"],
  [method |-> "PUT",    path |-> "/inventory/:id",       allow |-> <<"PUT">>,    handler |-> "update"],
  [method |-> "GET",    path |-> "/inventory/:id/photo", allow |-> <<"GET">>,    handler |-> "getPhoto"],
  [method |-> "PUT",    path |-> "/inventory/:id/photo", allow |-> <<"PUT">>,    handler |-> "updatePhoto"],
  [method |-> "DELETE", path |-> "/inventory/:id",       allow |-> <<"DELETE">>, handler |-> "delete"],
  [method |-> "POST",   path |-> "/search",              allow |-> <<"POST">>,   handler |-> "searchPost"],
  [method |-> "GET",    path |-> "/search",              allow |-> <<"GET">>,    handler |-> "searchGet"] >>

\* app.get, app.post, app.put, app.delete: a route runs its handlers for a
\* request on its path whose method is the route's; a HEAD request runs the
\* handlers of a GET route
RouteRuns(route, method, path) ==
  /\ route.path = path
  /\ route.method = (IF method = "HEAD" THEN "GET" ELSE method)

\* the first route that runs for the request, 0 when none does
MatchRoute(method, path) ==
  IF \E i \in 1..Len(Routes) : RouteRuns(Routes[i], method, path)
  THEN CHOOSE i \in 1..Len(Routes) :
         /\ RouteRuns(Routes[i], method, path)
         /\ \A j \in 1..(i - 1) : ~RouteRuns(Routes[j], method, path)
  ELSE 0

Includes(methods, m) == \E i \in 1..Len(methods) : methods[i] = m

RECURSIVE Join(_)
\* methods.join(', ')
Join(methods) ==
  IF Len(methods) = 0 THEN ""
  ELSE IF Len(methods) = 1 THEN methods[1]
  ELSE methods[1] \o ", " \o Join(Tail(methods))

\* index.js:95-103; TRUE when the middleware answers 405 itself
allowMethods(methods, method) == ~Includes(methods, method)

\* which code answers the request
Dispatch(method, path) ==
  LET i == MatchRoute(method, path)
  IN IF i = 0 THEN "fallback"
     ELSE IF allowMethods(Routes[i].allow, method) THEN "methodNotAllowed"
     ELSE Routes[i].handler

----------------------------------------------------------------------------
(* Responses *)

Response(status, kind, body) ==
  [status |-> status, allow |-> Undefined, ctype |-> Undefined,
   kind |-> kind, body |-> body]

NotFound == Response(404, "text", "Not found")

\* a handler that throws: Express answers 500
ServerError == Response(500, "text", "TypeError")

\* a projection that drops nothing
PublicData_Whole(item) == item

\* const { storedFileName, ...publicData } = item
PublicData(item) ==
  [id |-> item.id, name |-> item.name, description |-> item.description,
   photo |-> item.photo]

Outcome(d, dk, ph, n, r) ==
  [db |-> d, disk |-> dk, photos |-> ph, uuidCount |-> n, resp |-> r]

----------------------------------------------------------------------------
(* The photo directory *)

existsSync(ph, fname) == \E f \in ph : f[1] = fname
unlinkSync(ph, fname) == {f \in ph : f[1] # fname}
ReadFile(ph, fname) == (CHOOSE f \in ph : f[1] = fname)[2]

\* an upload that names the file and keeps its bytes out of the directory
Upload_NotWritten(ph, n, file) ==
  IF file.present
  THEN [photos |-> ph, uuidCount |-> n + 1,
        filename |-> uuidv4(n) \o OrElse(file.ext, ".jpg")]
  ELSE [photos |-> ph, uuidCount |-> n, filename |-> Undefined]

\* index.js:75-83, upload.single('photo'): the file of the request, when it
\* has one, is written under a fresh name before the handler runs
Upload(ph, n, file) ==
  IF file.present
  THEN LET ext == OrElse(file.ext, ".jpg")
           fname == uuidv4(n) \o ext
       IN [photos |-> ph \cup {<<fname, file.bytes>>}, uuidCount |-> n + 1,
           filename |-> fname]
  ELSE [photos |-> ph, uuidCount |-> n, filename |-> Undefined]

----------------------------------------------------------------------------
(* Handlers *)

\* index.js:61-63: the index of the first item with this id, 0 when none
findItem(d, id) ==
  IF \E i \in 1..Len(d.items) : d.items[i].id = id
  THEN CHOOSE i \in 1..Len(d.items) :
         /\ d.items[i].id = id
         /\ \A j \in 1..(i - 1) : d.items[j].id # id
  ELSE 0

PhotoPath(id) == "/inventory/" \o id \o "/photo"

\* an insertion at the front of the array
Push_Front(items, item) == <<item>> \o items

\* index.js:128, db.items.push(item)
Push(items, item) == Append(items, item)

\* an id taken from the length of the collection
NewId_FromLength(d, n) == uuidv4(Len(d.items))

\* index.js:117, const id = uuidv4()
NewId(d, n) == uuidv4(n)

\* a check that rejects only an absent name
NameMissing_AbsentOnly(name) == name = Undefined

\* index.js:113, !name
NameMissing(name) == ~Truthy(name)

\* index.js:110-132, the handler proper; filename is req.file.filename,
\* Undefined when the request had no file
RegisterHandler(d, dk, ph, n, r, filename) ==
  LET name == r.body.inventory_name
      desc == OrElse(r.body.description, "")
  IN IF NameMissing(name)
     THEN Outcome(d, dk, ph, n,
                  Response(400, "error", "inventory_name is required"))
     ELSE LET id == NewId(d, n)
              file == IF filename # Undefined THEN filename ELSE Null
              item == [id |-> id, name |-> name, description |-> desc,
                       photo |-> IF Truthy(file) THEN PhotoPath(id) ELSE Null,
                       storedFileName |-> file]
          IN IF ~HasItems(d)
             THEN Outcome(d, dk, ph, n + 1, ServerError)
             ELSE LET d2 == [d EXCEPT !.items = Push(@, item)]
                  IN Outcome(d2, saveDb(d2), ph, n + 1,
                             Response(201, "item", PublicData(item)))

\* index.js:109-133, upload.single('photo') and then the handler
Register(d, dk, ph, n, r) ==
  LET up == Upload(ph, n, r.file)
  IN RegisterHandler(d, dk, up.photos, up.uuidCount, r, up.filename)

\* index.js:135-138
ListInventory(d, dk, ph, n, r) ==
  IF ~HasItems(d) THEN Outcome(d, dk, ph, n, ServerError)
  ELSE Outcome(d, dk, ph, n,
         Response(200, "items", [i \in 1..Len(d.items) |-> PublicData(d.items[i])]))

\* index.js:140-146
GetItem(d, dk, ph, n, r) ==
  IF ~HasItems(d) THEN Outcome(d, dk, ph, n, ServerError)
  ELSE LET i == findItem(d, r.id)
       IN IF i = 0 THEN Outcome(d, dk, ph, n, NotFound)
          ELSE Outcome(d, dk, ph, n, Response(200, "item", PublicData(d.items[i])))

\* an update that overwrites with whatever the request supplies
Overwrite_WhenSupplied(old, new) == IF new = Undefined THEN old ELSE new

\* an update that assigns every field from the body, supplied or not
Overwrite_Unconditional(old, new) == new

\* index.js:152-153, if (req.body.x) item.x = req.body.x
Overwrite(old, new) == IF Truthy(new) THEN new ELSE old

\* index.js:148-159
UpdateItem(d, dk, ph, n, r) ==
  IF ~HasItems(d) THEN Outcome(d, dk, ph, n, ServerError)
  ELSE LET i == findItem(d, r.id)
       IN IF i = 0 THEN Outcome(d, dk, ph, n, NotFound)
          ELSE LET it1 == [d.items[i] EXCEPT
                                    !.name = Overwrite(@, r.body.name)]
                   it2 == [it1 EXCEPT
                             !.description = Overwrite(@, r.body.description)]
                   d2 == [d EXCEPT !.items[i] = it2]
               IN Outcome(d2, saveDb(d2), ph, n, Response(200, "item", PublicData(it2)))

\* index.js:161-170
GetPhoto(d, dk, ph, n, r) ==
  IF ~HasItems(d) THEN Outcome(d, dk, ph, n, ServerError)
  ELSE LET i == findItem(d, r.id)
       IN IF i = 0 \/ ~Truthy(d.items[i].storedFileName)
          THEN Outcome(d, dk, ph, n, NotFound)
          ELSE LET file == d.items[i].storedFileName
               IN IF ~existsSync(ph, file) THEN Outcome(d, dk, ph, n, NotFound)
                  ELSE Outcome(d, dk, ph, n,
                         [Response(200, "bytes", ReadFile(ph, file))
                            EXCEPT !.ctype = "image/jpeg"])

\* a replacement that leaves the old file in place
DeleteOldFile_Keeps(ph, old) == ph

\* index.js:178-182
DeleteOldFile(ph, old) ==
  IF Truthy(old) /\ existsSync(ph, old) THEN unlinkSync(ph, old) ELSE ph

\* index.js:173-190, the handler proper; filename is req.file.filename,
\* Undefined when the request had no file
UpdatePhotoHandler(d, dk, ph, n, r, filename) ==
  IF ~HasItems(d) THEN Outcome(d, dk, ph, n, ServerError)
  ELSE LET i == findItem(d, r.id)
       IN IF i = 0 THEN Outcome(d, dk, ph, n, NotFound)
          ELSE IF filename = Undefined
          THEN Outcome(d, dk, ph, n, Response(400, "text", "No file uploaded"))
          ELSE LET old == d.items[i].storedFileName
                   ph2 == DeleteOldFile(ph, old)
                   it2 == [d.items[i] EXCEPT
                             !.storedFileName = filename,
                             !.photo = PhotoPath(d.items[i].id)]
                   d2 == [d EXCEPT !.items[i] = it2]
               IN Outcome(d2, saveDb(d2), ph2, n,
                          Response(200, "item", PublicData(it2)))

\* index.js:172-191, upload.single('photo') and then the handler
UpdatePhoto(d, dk, ph, n, r) ==
  LET up == Upload(ph, n, r.file)
  IN UpdatePhotoHandler(d, dk, up.photos, up.uuidCount, r, up.filename)

\* a removal that drops the last element whatever the index
Splice_Last(items, idx) == SubSeq(items, 1, Len(items) - 1)

\* index.js:205, db.items.splice(idx, 1)
Splice(items, idx) ==
  [k \in 1..(Len(items) - 1) |-> IF k < idx THEN items[k] ELSE items[k + 1]]

\* index.js:199-203
RemovePhoto(ph, file) ==
  IF Truthy(file) /\ existsSync(ph, file) THEN unlinkSync(ph, file) ELSE ph

\* index.js:193-209
DeleteItem(d, dk, ph, n, r) ==
  IF ~HasItems(d) THEN Outcome(d, dk, ph, n, ServerError)
  ELSE LET idx == findItem(d, r.id)
       IN IF idx = 0 THEN Outcome(d, dk, ph, n, NotFound)
          ELSE LET file == d.items[idx].storedFileName
                   ph2 == RemovePhoto(ph, file)
                   d2 == [d EXCEPT !.items = Splice(@, idx)]
               IN Outcome(d2, saveDb(d2), ph2, n,
                          Response(200, "message", "Deleted"))

\* the body both search handlers share, on the id and the flag each reads
Search(d, dk, ph, n, id, hp) ==
  IF ~Truthy(id) THEN Outcome(d, dk, ph, n, Response(400, "text", "id required"))
  ELSE IF ~HasItems(d) THEN Outcome(d, dk, ph, n, ServerError)
  ELSE LET i == findItem(d, id)
       IN IF i = 0 THEN Outcome(d, dk, ph, n, NotFound)
          ELSE LET item == d.items[i]
                   description == IF Truthy(hp) /\ Truthy(item.photo)
                                  THEN item.description \o " Photo: " \o item.photo
                                  ELSE item.description
               IN Outcome(d, dk, ph, n,
                    Response(200, "search",
                      [id |-> item.id, name |-> item.name,
                       description |-> description]))

\* index.js:212-231
SearchPost(d, dk, ph, n, r) == Search(d, dk, ph, n, r.body.id, r.body.has_photo)

\* index.js:234-253
SearchGet(d, dk, ph, n, r) == Search(d, dk, ph, n, r.query.id, r.query.includePhoto)

\* index.js:97-100, the answer of allowMethods to a method it does not list
MethodNotAllowed(d, dk, ph, n, methods) ==
  Outcome(d, dk, ph, n,
    [Response(405, "text", "Method Not Allowed") EXCEPT !.allow = Join(methods)])

\* index.js:255-256
Fallback(d, dk, ph, n, r) == Outcome(d, dk, ph, n, NotFound)

----------------------------------------------------------------------------
(* Requests *)

NoBody == [inventory_name |-> Undefined, description |-> Undefined,
           name |-> Undefined, id |-> Undefined, has_photo |-> Undefined]
NoQuery == [id |-> Undefined, includePhoto |-> Undefined]

Request(method, path) ==
  [method |-> method, path |-> path, id |-> Undefined, body |-> NoBody,
   query |-> NoQuery, file |-> NoFile]

PhotoRequest(id) == [Request("GET", "/inventory/:id/photo") EXCEPT !.id = id]

NoRequest == Request("", "")
NoResponse == Response(0, "none", "")

SearchIds == ReqIds \cup {Undefined, ""}

\* the server is idle: the last response has left
Idle == req = NoRequest

\* the connections of two clients whose requests overlap
Conns == {"c1", "c2"}

\* a connection: phase is "free", "received" (the body is read and the
\* photo, if any, uploaded; the handler has not run), "opening" (the photo
\* handler has created the read stream; the file is not open yet),
\* "answered" or "fault" (an error nothing handles)
Conn(phase, r, filename, response) ==
  [phase |-> phase, req |-> r, filename |-> filename, resp |-> response]
FreeConn == Conn("free", NoRequest, Undefined, NoResponse)

\* the request r arrives at the idle server and is answered with outcome o;
\* lu and del are the histories
Serve(r, o, lu, del) ==
  /\ Idle
  /\ o.uuidCount <= MaxUuid
  /\ db' = o.db
  /\ disk' = o.disk
  /\ photos' = o.photos
  /\ uuidCount' = o.uuidCount
  /\ req' = r
  /\ resp' = o.resp
  /\ lastUpload' = lu
  /\ deleted' = del
  /\ conns' = conns

----------------------------------------------------------------------------
(* The state machine *)

InitialDisks ==
  {NoDbFile, DbFile(EmptyText), DbFile(GarbageText), DbFile(BareObjectText),
   DbFile(JSONstringify(EmptyDb))}

Init ==
  /\ \E dk \in InitialDisks : db = LoadDb(dk) /\ disk = LoadDisk(dk)
  /\ photos = {}
  /\ uuidCount = 0
  /\ req = NoRequest
  /\ resp = NoResponse
  /\ lastUpload = [id \in ReqIds |-> Undefined]
  /\ deleted = {}
  /\ conns = [c \in Conns |-> FreeConn]

\* the process is stopped and started again on the same cache directory
Restart ==
  /\ db' = LoadDb(disk)
  /\ disk' = LoadDisk(disk)
  /\ req' = NoRequest
  /\ resp' = NoResponse
  /\ UNCHANGED <<photos, uuidCount, lastUpload, deleted, conns>>

\* the response has been written out; the server waits for the next request
Done ==
  /\ ~Idle
  /\ req' = NoRequest
  /\ resp' = NoResponse
  /\ UNCHANGED <<db, disk, photos, uuidCount, lastUpload, deleted, conns>>

RegisterReq ==
  /\ Idle
  /\ \E name \in Names, desc \in Descriptions, file \in Files :
       LET r == [Request("POST", "/register") EXCEPT
                   !.body.inventory_name = name, !.body.description = desc,
                   !.file = file]
           o == Register(db, disk, photos, uuidCount, r)
       IN /\ Dispatch(r.method, r.path) = "register"
          /\ Serve(r, o,
                   IF o.resp.status = 201 /\ file.present
                   THEN [lastUpload EXCEPT ![o.resp.body.id] = file.bytes]
                   ELSE lastUpload,
                   deleted)

ListInventoryReq ==
  /\ Idle
  /\ LET r == Request("GET", "/inventory")
     IN /\ Dispatch(r.method, r.path) = "list"
        /\ Serve(r, ListInventory(db, disk, photos, uuidCount, r), lastUpload, deleted)

GetItemReq ==
  /\ Idle
  /\ \E id \in ReqIds :
       LET r == [Request("GET", "/inventory/:id") EXCEPT !.id = id]
       IN /\ Dispatch(r.method, r.path) = "get"
          /\ Serve(r, GetItem(db, disk, photos, uuidCount, r), lastUpload, deleted)

UpdateItemReq ==
  /\ Idle
  /\ \E id \in ReqIds, name \in Names, desc \in Descriptions :
       LET r == [Request("PUT", "/inventory/:id") EXCEPT
                   !.id = id, !.body.name = name, !.body.description = desc]
       IN /\ Dispatch(r.method, r.path) = "update"
          /\ Serve(r, UpdateItem(db, disk, photos, uuidCount, r), lastUpload, deleted)

GetPhotoReq ==
  /\ Idle
  /\ \E id \in ReqIds :
       LET r == [Request("GET", "/inventory/:id/photo") EXCEPT !.id = id]
       IN /\ Dispatch(r.method, r.path) = "getPhoto"
          /\ Serve(r, GetPhoto(db, disk, photos, uuidCount, r), lastUpload, deleted)

UpdatePhotoReq ==
  /\ Idle
  /\ \E id \in ReqIds, file \in Files :
       LET r == [Request("PUT", "/inventory/:id/photo") EXCEPT
                   !.id = id, !.file = file]
           o == UpdatePhoto(db, disk, photos, uuidCount, r)
       IN /\ Dispatch(r.method, r.path) = "updatePhoto"
          /\ Serve(r, o,
                   IF o.resp.status = 200
                   THEN [lastUpload EXCEPT ![id] = file.bytes] ELSE lastUpload,
                   deleted)

DeleteItemReq ==
  /\ Idle
  /\ \E id \in ReqIds :
       LET r == [Request("DELETE", "/inventory/:id") EXCEPT !.id = id]
           o == DeleteItem(db, disk, photos, uuidCount, r)
       IN /\ Dispatch(r.method, r.path) = "delete"
          /\ Serve(r, o, lastUpload,
                   IF o.resp.status = 200
                   THEN deleted \cup
                          {<<id, db.items[findItem(db, id)].storedFileName>>}
                   ELSE deleted)

SearchPostReq ==
  /\ Idle
  /\ \E id \in SearchIds, hp \in Flags :
       LET r == [Request("POST", "/search") EXCEPT
                   !.body.id = id, !.body.has_photo = hp]
       IN /\ Dispatch(r.method, r.path) = "searchPost"
          /\ Serve(r, SearchPost(db, disk, photos, uuidCount, r), lastUpload, deleted)

SearchGetReq ==
  /\ Idle
  /\ \E id \in SearchIds, hp \in Flags :
       LET r == [Request("GET", "/search") EXCEPT
                   !.query.id = id, !.query.includePhoto = hp]
       IN /\ Dispatch(r.method, r.path) = "searchGet"
          /\ Serve(r, SearchGet(db, disk, photos, uuidCount, r), lastUpload, deleted)

\* a request the allowMethods middleware of a route answers
MethodNotAllowedReq ==
  /\ Idle
  /\ \E method \in Methods, path \in Paths :
       LET r == Request(method, path)
       IN /\ Dispatch(method, path) = "methodNotAllowed"
          /\ Serve(r, MethodNotAllowed(db, disk, photos, uuidCount,
                                       Routes[MatchRoute(method, path)].allow),
                   lastUpload, deleted)

\* a request no route runs for
FallbackReq ==
  /\ Idle
  /\ \E method \in Methods, path \in Paths :
       LET r == Request(method, path)
       IN /\ Dispatch(method, path) = "fallback"
          /\ Serve(r, Fallback(db, disk, photos, uuidCount, r), lastUpload, deleted)

Next ==
  \/ Restart
  \/ RegisterReq
  \/ ListInventoryReq
  \/ GetItemReq
  \/ UpdateItemReq
  \/ GetPhotoReq
  \/ UpdatePhotoReq
  \/ DeleteItemReq
  \/ SearchPostReq
  \/ SearchGetReq
  \/ MethodNotAllowedReq
  \/ FallbackReq
  \/ Done

Spec == Init /\ [][Next]_vars

----------------------------------------------------------------------------
(* Overlapping requests.  A handler body runs to its end without giving up  *)
(* the thread (all its file operations are the ...Sync ones); what happens *)
(* outside it is the reading of the body with the upload of the photo,      *)
(* before the handler, and the opening and reading of the photo stream,     *)
(* after the handler of GET /inventory/:id/photo.                           *)

RaceIds == {uuidv4(i) : i \in 0..(MaxRaceUuid - 1)}
UploadedFile == [present |-> TRUE, bytes |-> "jpegB", ext |-> ".png"]

\* the requests that overlap
RaceRequests ==
  {[Request("POST", "/register") EXCEPT
      !.body.inventory_name = "n1", !.body.description = "d1", !.file = file] :
     file \in {NoFile, [present |-> TRUE, bytes |-> "jpegA", ext |-> ""]}}
  \cup {[Request("PUT", "/inventory/:id") EXCEPT !.id = id, !.body.name = "n2"] :
          id \in RaceIds}
  \cup {[Request("PUT", "/inventory/:id") EXCEPT
           !.id = id, !.body.description = "d2"] : id \in RaceIds}
  \cup {PhotoRequest(id) : id \in RaceIds}
  \cup {[Request("PUT", "/inventory/:id/photo") EXCEPT
           !.id = id, !.file = UploadedFile] : id \in RaceIds}
  \cup {[Request("DELETE", "/inventory/:id") EXCEPT !.id = id] : id \in RaceIds}

\* whether upload.single('photo') is among the middleware the request runs
HasUpload(r) == Dispatch(r.method, r.path) \in {"register", "updatePhoto"}

\* the handler the request is routed to, run on the current state
HandlerOutcome(r, filename) ==
  LET h == Dispatch(r.method, r.path)
  IN CASE h = "register" ->
            RegisterHandler(db, disk, photos, uuidCount, r, filename)
       [] h = "update" -> UpdateItem(db, disk, photos, uuidCount, r)
       [] h = "getPhoto" -> GetPhoto(db, disk, photos, uuidCount, r)
       [] h = "updatePhoto" ->
            UpdatePhotoHandler(db, disk, photos, uuidCount, r, filename)
       [] h = "delete" -> DeleteItem(db, disk, photos, uuidCount, r)

Sequential == <<req, resp, lastUpload, deleted>>

\* a request arrives on a free connection; its body is read and its photo,
\* if it has one and its route takes one, is written to the photo directory
Receive(c) ==
  /\ conns[c].phase = "free"
  /\ \E r \in RaceRequests :
       LET up == IF HasUpload(r) THEN Upload(photos, uuidCount, r.file)
                 ELSE Upload(photos, uuidCount, NoFile)
       IN /\ up.uuidCount <= MaxRaceUuid
          /\ photos' = up.photos
          /\ uuidCount' = up.uuidCount
          /\ conns' = [conns EXCEPT ![c] = Conn("received", r, up.filename, NoResponse)]
  /\ UNCHANGED <<db, disk, Sequential>>

\* the handler of a received request runs; the photo handler that found the
\* file leaves a read stream that is yet to open it (index.js:169)
Handle(c) ==
  /\ conns[c].phase = "received"
  /\ LET r == conns[c].req
         o == HandlerOutcome(r, conns[c].filename)
         streams == Dispatch(r.method, r.path) = "getPhoto" /\ o.resp.status = 200
     IN /\ o.uuidCount <= MaxRaceUuid
        /\ db' = o.db
        /\ disk' = o.disk
        /\ photos' = o.photos
        /\ uuidCount' = o.uuidCount
        /\ conns' = [conns EXCEPT ![c] =
             IF streams
             THEN Conn("opening", r, db.items[findItem(db, r.id)].storedFileName,
                       [o.resp EXCEPT !.status = 0, !.kind = "none", !.body = ""])
             ELSE Conn("answered", r, conns[c].filename, o.resp)]
  /\ UNCHANGED Sequential

\* the read stream opens its file: it sends the bytes of the file when the
\* file is there, and emits an error no listener takes when it is not
OpenStream(c) ==
  /\ conns[c].phase = "opening"
  /\ conns' = [conns EXCEPT ![c] =
       IF existsSync(photos, conns[c].filename)
       THEN Conn("answered", conns[c].req, conns[c].filename,
                 [conns[c].resp EXCEPT !.status = 200, !.kind = "bytes",
                                       !.body = ReadFile(photos, conns[c].filename)])
       ELSE Conn("fault", conns[c].req, conns[c].filename, conns[c].resp)]
  /\ UNCHANGED <<db, disk, photos, uuidCount, Sequential>>

\* the responses have left and the connections are free again
Release ==
  /\ \E c \in Conns : conns[c].phase = "answered"
  /\ \A c \in Conns : conns[c].phase \in {"free", "answered"}
  /\ conns' = [c \in Conns |-> FreeConn]
  /\ UNCHANGED <<db, disk, photos, uuidCount, Sequential>>

\* the error of a read stream ends the process; it is started again
Crash ==
  /\ \E c \in Conns : conns[c].phase = "fault"
  /\ conns' = [c \in Conns |-> FreeConn]
  /\ db' = LoadDb(disk)
  /\ disk' = LoadDisk(disk)
  /\ UNCHANGED <<photos, uuidCount, Sequential>>

NextRace ==
  \/ \E c \in Conns : Receive(c)
  \/ \E c \in Conns : Handle(c)
  \/ \E c \in Conns : OpenStream(c)
  \/ Release
  \/ Crash

SpecRace == Init /\ [][NextRace]_vars

----------------------------------------------------------------------------
(* Properties *)

KnownPaths == {Routes[i].path : i \in 1..Len(Routes)}
PermittedMethods(path) ==
  {Routes[i].method : i \in {j \in 1..Len(Routes) : Routes[j].path = path}}

\* a register, update, update-photo or delete request was answered 200/201
MutationSucceeded ==
  /\ ~Idle
  /\ resp.status \in {200, 201}
  /\ \/ req.method = "POST" /\ req.path = "/register"
     \/ req.method = "PUT" /\ req.path \in {"/inventory/:id", "/inventory/:id/photo"}
     \/ req.method = "DELETE" /\ req.path = "/inventory/:id"

\* C1: a request on a known route path with a method the path does not
\* permit is answered 405 with an Allow header; a request on a path no
\* route has is answered 404.
C1_DisallowedMethodIs405 ==
  ~Idle =>
    /\ (req.path \in KnownPaths /\ req.method \notin PermittedMethods(req.path))
         => (resp.status = 405 /\ resp.allow # Undefined)
    /\ (req.path \notin KnownPaths) => resp.status = 404

\* C2: a request answered 400 or 404 leaves the collection, the JSON
\* document and the files of the photo directory as they were.
C2_FailureChangesNothing ==
  [][(~Idle' /\ resp'.status \in {400, 404})
       => (db' = db /\ disk' = disk /\ photos' = photos)]_vars

\* C3: POST /register without inventory_name, or with an empty one, is
\* answered 400 and leaves the collection in memory and the JSON document
\* as they were, whatever description and photo it carries.
C3_RegisterWithoutNameIs400 ==
  [][(/\ ~Idle'
      /\ req'.method = "POST" /\ req'.path = "/register"
      /\ req'.body.inventory_name \in {Undefined, ""})
       => (resp'.status = 400 /\ db' = db /\ disk' = disk)]_vars

C3_Witness ==
  /\ req.method = "POST" /\ req.path = "/register"
  /\ req.body.inventory_name = ""
  /\ req.body.description = "d1"
  /\ req.file.present
  /\ resp.status = 400
  /\ HasItems(db) /\ Len(db.items) >= 1

\* C4: once a mutating request has been answered with success the JSON
\* document is the serialization of the collection in memory, and in every
\* state a restart on the same cache directory loads the collection held
\* before it.
C4_DiskMirrorsMemory ==
  /\ MutationSucceeded => (disk.exists /\ disk.text = JSONstringify(db))
  /\ LoadDb(disk) = db

C4_Witness ==
  /\ MutationSucceeded
  /\ req.method = "DELETE"
  /\ Len(db.items) >= 1
  /\ \E i \in 1..Len(db.items) : db.items[i].storedFileName # Null

\* C5: after start-up the collection in memory is a sequence of items,
\* whatever inventory.json held, and no request ends in an unhandled fault
\* (status 500).
C5_StartupYieldsUsableCollection ==
  ~Idle => /\ HasItems(db)
            /\ resp.status \in {200, 201, 400, 404, 405}


\* C6: PUT /inventory/:id on an existing item overwrites name only with a
\* non-empty supplied name and description only with a non-empty supplied
\* description, and leaves id, photo and storedFileName as they were.
C6_UpdateOverwritesOnlySupplied ==
  [][(/\ ~Idle'
      /\ req'.method = "PUT" /\ req'.path = "/inventory/:id"
      /\ HasItems(db) /\ findItem(db, req'.id) # 0)
       => LET i == findItem(db, req'.id)
              old == db.items[i]
              new == db'.items[i]
          IN /\ resp'.status = 200
             /\ Len(db'.items) = Len(db.items)
             /\ new.name = IF req'.body.name \in {Undefined, ""}
                           THEN old.name ELSE req'.body.name
             /\ new.description = IF req'.body.description \in {Undefined, ""}
                                  THEN old.description ELSE req'.body.description
             /\ new.id = old.id
             /\ new.photo = old.photo
             /\ new.storedFileName = old.storedFileName]_vars

C6_Witness ==
  /\ req.method = "PUT" /\ req.path = "/inventory/:id"
  /\ resp.status = 200
  /\ req.body.name = "n2" /\ req.body.description = ""
  /\ resp.body.name = "n2" /\ resp.body.description = "d1"
  /\ resp.body.photo # Null

\* C7: a PUT /inventory/:id/photo answered 200 on an item that had a photo
\* removes the previous file from the photo directory, makes the item
\* reference the uploaded file, and GET /inventory/:id/photo then returns
\* the uploaded bytes.
C7_ReplacedPhotoIsRemoved ==
  [][(/\ ~Idle'
      /\ req'.method = "PUT" /\ req'.path = "/inventory/:id/photo"
      /\ resp'.status = 200
      /\ db.items[findItem(db, req'.id)].storedFileName # Null)
       => LET i == findItem(db, req'.id)
              old == db.items[i].storedFileName
              new == db'.items[i].storedFileName
              g == GetPhoto(db', disk', photos', uuidCount',
                            PhotoRequest(req'.id)).resp
          IN /\ ~existsSync(photos', old)
             /\ new # old
             /\ <<new, req'.file.bytes>> \in photos'
             /\ db'.items[i].photo = PhotoPath(req'.id)
             /\ g.status = 200 /\ g.body = req'.file.bytes]_vars

C7_Witness ==
  /\ req.method = "PUT" /\ req.path = "/inventory/:id/photo"
  /\ resp.status = 200
  /\ deleted = {}
  /\ Len(db.items) = 1
  /\ uuidCount = 3
  /\ Cardinality(photos) = 1

\* the answers to every request that names the id
AnswersFor(id) ==
  {GetItem(db, disk, photos, uuidCount,
           [Request("GET", "/inventory/:id") EXCEPT !.id = id]).resp,
   GetPhoto(db, disk, photos, uuidCount, PhotoRequest(id)).resp,
   DeleteItem(db, disk, photos, uuidCount,
              [Request("DELETE", "/inventory/:id") EXCEPT !.id = id]).resp}
  \cup {UpdateItem(db, disk, photos, uuidCount,
                   [Request("PUT", "/inventory/:id") EXCEPT
                      !.id = id, !.body.name = name,
                      !.body.description = desc]).resp :
          name \in Names, desc \in Descriptions}
  \cup {UpdatePhoto(db, disk, photos, uuidCount,
                    [Request("PUT", "/inventory/:id/photo") EXCEPT
                       !.id = id, !.file = file]).resp : file \in Files}
  \cup {SearchPost(db, disk, photos, uuidCount,
                   [Request("POST", "/search") EXCEPT
                      !.body.id = id, !.body.has_photo = hp]).resp : hp \in Flags}
  \cup {SearchGet(db, disk, photos, uuidCount,
                  [Request("GET", "/search") EXCEPT
                     !.query.id = id, !.query.includePhoto = hp]).resp : hp \in Flags}

\* C8: once DELETE /inventory/:id was answered 200 the item is in neither
\* the GET /inventory output nor the JSON document, its photo file is not
\* in the photo directory, and every request for the id is answered 404
\* from then on.
C8_DeletedStaysGone ==
  \A e \in deleted :
    LET id == e[1]
        file == e[2]
        list == ListInventory(db, disk, photos, uuidCount,
                              Request("GET", "/inventory")).resp
    IN /\ list.status = 200
       /\ \A i \in 1..Len(list.body) : list.body[i].id # id
       /\ \A i \in 1..Len(disk.text.items) :
            MemberOr(disk.text.items[i], "id") # id
       /\ file # Null => ~existsSync(photos, file)
       /\ \A a \in AnswersFor(id) : a.status = 404

C8_Witness ==
  /\ \E e \in deleted : e[1] = req.id /\ e[2] # Null
  /\ req.method = "GET" /\ req.path = "/inventory/:id"
  /\ resp.status = 404
  /\ Len(db.items) >= 1

\* C9: GET /inventory/:id/photo is answered 404 exactly when the item does
\* not exist, has no photo, or its file is not in the photo directory, and
\* otherwise 200 with the bytes uploaded for the item most recently.
C9_PhotoReadMatchesUpload ==
  (~Idle /\ req.method = "GET" /\ req.path = "/inventory/:id/photo") =>
    LET i == IF HasItems(db) THEN findItem(db, req.id) ELSE 0
        missing == \/ i = 0
                   \/ db.items[i].storedFileName = Null
                   \/ ~existsSync(photos, db.items[i].storedFileName)
    IN IF missing THEN resp.status = 404
       ELSE resp.status = 200 /\ resp.body = lastUpload[req.id]

\* the answer the search of the other method gives to the same id and flag
OtherSearch ==
  IF req.method = "POST"
  THEN SearchGet(db, disk, photos, uuidCount,
                 [Request("GET", "/search") EXCEPT
                    !.query.id = req.body.id,
                    !.query.includePhoto = req.body.has_photo]).resp
  ELSE SearchPost(db, disk, photos, uuidCount,
                  [Request("POST", "/search") EXCEPT
                     !.body.id = req.query.id,
                     !.body.has_photo = req.query.includePhoto]).resp

\* C10: POST /search on (id, has_photo) and GET /search on (id,
\* includePhoto) with the same values give the same answer: 400 without an
\* id, 404 for an unknown id, otherwise 200 with {id, name, description},
\* the description extended by the photo reference only when the flag is
\* truthy and the item has a photo.
C10_SearchPostEqualsSearchGet ==
  (~Idle /\ req.method \in {"GET", "POST"} /\ req.path = "/search") =>
    LET id == IF req.method = "POST" THEN req.body.id ELSE req.query.id
        hp == IF req.method = "POST" THEN req.body.has_photo
              ELSE req.query.includePhoto
        i == IF HasItems(db) THEN findItem(db, id) ELSE 0
    IN /\ resp = OtherSearch
       /\ IF id \in {Undefined, ""} THEN resp.status = 400
          ELSE IF i = 0 THEN resp.status = 404
          ELSE /\ resp.status = 200
               /\ resp.body.id = id
               /\ resp.body.name = db.items[i].name
               /\ resp.body.description =
                    IF hp \notin {Undefined, ""} /\ db.items[i].photo # Null
                    THEN db.items[i].description \o " Photo: " \o PhotoPath(id)
                    ELSE db.items[i].description

ItemRequest(id) == [Request("GET", "/inventory/:id") EXCEPT !.id = id]

\* whether a response body carries a storedFileName field
ExposesStoredFileName(r) ==
  CASE r.kind \in {"item", "search"} -> "storedFileName" \in DOMAIN r.body
    [] r.kind = "items" ->
         \E i \in 1..Len(r.body) : "storedFileName" \in DOMAIN r.body[i]
    [] OTHER -> FALSE

\* C11: right after POST /register was answered 201, GET /inventory/:id on
\* the returned id is answered 200 with the registered name and description
\* (the empty string for an absent description); and no response body of
\* any endpoint has a storedFileName field.
C11_CreatedItemIsReadBack ==
  /\ (~Idle /\ req.method = "POST" /\ req.path = "/register" /\ resp.status = 201)
       => LET g == GetItem(db, disk, photos, uuidCount,
                           ItemRequest(resp.body.id)).resp
          IN /\ g.status = 200
             /\ g.body.name = req.body.inventory_name
             /\ g.body.description = IF req.body.description = Undefined THEN ""
                                     ELSE req.body.description
             /\ ~ExposesStoredFileName(g)
  /\ ~ExposesStoredFileName(resp)

C11_Witness ==
  /\ req.method = "POST" /\ req.path = "/register"
  /\ resp.status = 201
  /\ req.body.inventory_name = "n2" /\ req.body.description = "d1"
  /\ req.file.present
  /\ Len(db.items) = 2

\* the ids of the items, in the order of the collection
Ids(items) == [i \in 1..Len(items) |-> items[i].id]
\* every id an item of the collection holds or a deleted item held
EverIds == {db.items[i].id : i \in 1..Len(db.items)} \cup {e[1] : e \in deleted}

\* C12: the id a 201 of POST /register returns is held by no item that
\* exists or was deleted; the ids of the collection are pairwise distinct
\* in every state; and no step changes the id of an item that stays.
C12_IdsAreFreshAndStable ==
  [][/\ (~Idle' /\ req'.method = "POST" /\ req'.path = "/register"
           /\ resp'.status = 201)
          => (resp'.body.id \notin EverIds /\ resp'.body.id \in EverIds')
     /\ \A i, j \in 1..Len(db'.items) :
          db'.items[i].id = db'.items[j].id => i = j
     /\ \/ Ids(db'.items) = Ids(db.items)
        \/ \E id \in Uuids : Ids(db'.items) = Append(Ids(db.items), id)
        \/ \E k \in 1..Len(db.items) :
             Ids(db'.items) = SubSeq(Ids(db.items), 1, k - 1)
                                \o SubSeq(Ids(db.items), k + 1, Len(db.items))]_vars

C12_Witness ==
  /\ req.method = "POST" /\ req.path = "/register"
  /\ resp.status = 201
  /\ deleted # {}
  /\ Len(db.items) >= 1

\* C13: every item of the collection has a photo exactly when it has a
\* storedFileName, its photo is /inventory/<its id>/photo, and the file its
\* storedFileName names is in the photo directory.
C13_PhotoReferencesAreSound ==
  \A i \in 1..Len(db.items) :
    LET item == db.items[i]
    IN /\ (item.photo # Null) <=> (item.storedFileName # Null)
       /\ item.photo # Null => item.photo = "/inventory/" \o item.id \o "/photo"
       /\ item.storedFileName # Null => \E f \in photos : f[1] = item.storedFileName

C13_Witness ==
  /\ req.method = "PUT" /\ req.path = "/inventory/:id/photo"
  /\ resp.status = 200
  /\ Len(db.items) = 2
  /\ \E i \in 1..2 : db.items[i].photo = Null
  /\ \E i \in 1..2 : db.items[i].storedFileName # Null

UuidIndex(id) == CHOOSE k \in 1..Len(UuidPool) : UuidPool[k] = id

\* C16: GET /inventory lists the items in the order they were registered;
\* a 201 of register appends one item, a 200 of update or update photo
\* changes only the targeted item and keeps all positions, a 200 of delete
\* removes the targeted item alone, and no other step changes the
\* collection.
C16_OrderIsKept ==
  [][/\ LET list == ListInventory(db', disk', photos', uuidCount',
                                  Request("GET", "/inventory")).resp
        IN list.status = 200 =>
             /\ Len(list.body) = Len(db'.items)
             /\ \A i, j \in 1..Len(list.body) :
                  i < j => UuidIndex(list.body[i].id) < UuidIndex(list.body[j].id)
     /\ IF ~Idle' /\ req'.method = "POST" /\ req'.path = "/register"
           /\ resp'.status = 201
        THEN /\ Len(db'.items) = Len(db.items) + 1
             /\ SubSeq(db'.items, 1, Len(db.items)) = db.items
             /\ db'.items[Len(db'.items)].id = resp'.body.id
        ELSE IF ~Idle' /\ req'.method = "PUT" /\ resp'.status = 200
        THEN /\ Len(db'.items) = Len(db.items)
             /\ \A i \in 1..Len(db.items) :
                  /\ db'.items[i].id = db.items[i].id
                  /\ db.items[i].id # req'.id => db'.items[i] = db.items[i]
        ELSE IF ~Idle' /\ req'.method = "DELETE" /\ resp'.status = 200
        THEN \E k \in 1..Len(db.items) :
               /\ db.items[k].id = req'.id
               /\ db'.items = SubSeq(db.items, 1, k - 1)
                                \o SubSeq(db.items, k + 1, Len(db.items))
        ELSE db'.items = db.items]_vars

C16_Witness ==
  /\ req.method = "DELETE" /\ req.path = "/inventory/:id"
  /\ resp.status = 200
  /\ Len(db.items) = 2
  /\ db.items[1].name = "n2"
  /\ req.id = "u1"

\* a PUT /inventory/:id that supplies a non-empty name and nothing else
OnlyName(r) ==
  /\ Dispatch(r.method, r.path) = "update"
  /\ Truthy(r.body.name) /\ r.body.description = Undefined
\* a PUT /inventory/:id that supplies a non-empty description and nothing else
OnlyDescription(r) ==
  /\ Dispatch(r.method, r.path) = "update"
  /\ Truthy(r.body.description) /\ r.body.name = Undefined

\* whether the item id of the collection d or of the JSON document dk lacks
\* the name or the description supplied
Lacks(d, dk, id, name, description) ==
  LET onDisk == LoadDb(dk)
      i == findItem(d, id)
      k == findItem(onDisk, id)
  IN \/ i = 0 \/ k = 0
     \/ d.items[i].name # name \/ d.items[i].description # description
     \/ onDisk.items[k].name # name \/ onDisk.items[k].description # description

\* the state the handlers of first and then of second leave
AfterBoth(first, second) ==
  LET o1 == UpdateItem(db, disk, photos, uuidCount, first)
  IN UpdateItem(o1.db, o1.disk, o1.photos, o1.uuidCount, second)

\* C14: under every interleaving of two simultaneous PUT /inventory/:id on
\* one existing item, one supplying only a non-empty name and the other
\* only a non-empty description, both answered 200, the item in memory and
\* in the JSON document holds both supplied values: no update is lost.
C14_NoLostUpdate ==
  \A c, e \in Conns :
    (/\ conns[c].phase = "answered" /\ conns[e].phase = "answered"
     /\ OnlyName(conns[c].req) /\ OnlyDescription(conns[e].req)
     /\ conns[c].req.id = conns[e].req.id
     /\ conns[c].resp.status = 200 /\ conns[e].resp.status = 200)
      => ~Lacks(db, disk, conns[c].req.id,
                conns[c].req.body.name, conns[e].req.body.description)

C14_Witness ==
  /\ conns["c1"].phase = "answered" /\ conns["c2"].phase = "answered"
  /\ OnlyName(conns["c2"].req) /\ OnlyDescription(conns["c1"].req)
  /\ conns["c1"].req.id = conns["c2"].req.id
  /\ conns["c1"].resp.status = 200 /\ conns["c2"].resp.status = 200
  /\ conns["c1"].resp.body.name = "n1"
  /\ conns["c2"].resp.body.description = "d2"

\* C14 as stated: when two such requests are both waiting for their
\* handlers on an existing item, there is an order of the two handlers
\* after which the item in memory or in the JSON document lacks one of the
\* two supplied values.
C14_UpdateCanBeLost ==
  \A c, e \in Conns :
    (/\ conns[c].phase = "received" /\ conns[e].phase = "received"
     /\ OnlyName(conns[c].req) /\ OnlyDescription(conns[e].req)
     /\ conns[c].req.id = conns[e].req.id
     /\ HasItems(db) /\ findItem(db, conns[c].req.id) # 0)
      => \E order \in {<<conns[c].req, conns[e].req>>,
                       <<conns[e].req, conns[c].req>>} :
           LET o == AfterBoth(order[1], order[2])
           IN Lacks(o.db, o.disk, conns[c].req.id,
                    conns[c].req.body.name, conns[e].req.body.description)

\* the bytes of the photos the overlapping requests upload
RaceBytes == {r.file.bytes : r \in {q \in RaceRequests : q.file.present}}

\* a connection whose GET /inventory/:id/photo has ended
PhotoReadEnded(c) ==
  /\ conns[c].phase \in {"answered", "fault"}
  /\ Dispatch(conns[c].req.method, conns[c].req.path) = "getPhoto"

\* C15: a GET /inventory/:id/photo that overlaps a DELETE /inventory/:id or
\* a PUT /inventory/:id/photo on the same item ends with 404 or with 200
\* and the bytes of a photo uploaded for the item, never in a fault of the
\* read stream that finds its file removed after the existence check.
C15_PhotoReadNeverFaults ==
  \A c \in Conns :
    (PhotoReadEnded(c) /\ HasItems(db)) =>
      /\ conns[c].phase = "answered"
      /\ \/ conns[c].resp.status = 404
         \/ /\ conns[c].resp.status = 200
            /\ conns[c].resp.body \in RaceBytes

====
